---------------------------- MODULE Spec2Model ----------------------------
(***************************************************************************)
(* Model of the LUKSO mini-app template:                                   *)
(*   - GridProvider / useGrid  (src/unnamed/part_000): the connection      *)
(*     state store, its effect (init + provider event handlers + cleanup); *)
(*   - LuksoProfile and Donate (src/components/LuksoProfile.tsx).          *)
(*                                                                         *)
(* React state is modelled as the stored value a setter leaves behind; the *)
(* re-render that re-runs an effect whose dependencies changed is its own  *)
(* step (Render), because React defers passive effects: handlers that run  *)
(* before it still see the values their closure captured.                  *)
(***************************************************************************)
EXTENDS Integers, Sequences, FiniteSets, TLC

VARIABLES
    hasWindow,        \* typeof window !== "undefined": provider and client exist
    phase,            \* "mounted" | "unmounted"  (GridProvider)
    chainId, accounts, contextAccounts, walletConnected,
    selectedAddress, isSearching,
    deps,             \* dependency values of the last effect run, or NoDeps
    cur,              \* number of effect runs so far; the last one is the live one
    inits,            \* effect run -> its init() call and its `mounted` flag
    cap,              \* effect run -> accounts/contextAccounts its closures captured
    listeners,        \* provider's registered handlers, in registration order
    provChainId, provAccounts, provContextAccounts,   \* the provider's own state
    nEvents,          \* provider events emitted so far
    lateWrite,        \* history: an init() wrote state after its cleanup had run
    eventAfterUnmount, \* history: the provider emitted an event after the unmount
    lastEvent,        \* history: the last event emitted, and whether a handler ran
    selArg,           \* history: argument of the last setSelectedAddress call
    amount, error,    \* Donate: useState of lines 113-114
    lastInput,        \* history: the number handleOnInput last parsed, line 143
    clicks,           \* Donate: sendToken invocations so far
    nSent,            \* calls of client.sendTransaction so far
    lastTx,           \* argument of the last client.sendTransaction call, or NoTx
    useGridOut,       \* outcome of the useGrid() call of the consumer rendering now
    profPhase,        \* LuksoProfile: "mounted" | "unmounted"
    address,          \* LuksoProfile: the address prop
    effectAddress,    \* LuksoProfile: dependency value of the last effect run
    fullName, profileImgUrl, profileBackground,   \* useState of lines 13-17
    fetches,          \* effect run -> its fetchProfileImage() call
    nFetch,           \* LuksoProfile effect runs so far
    origin,           \* history: per displayed field, the address whose fetch set it
    staleWrite        \* history: a fetch for another address than the current one wrote

storeVars == <<chainId, accounts, contextAccounts, walletConnected>>
uiVars == <<selectedAddress, isSearching, selArg>>
provVars == <<provChainId, provAccounts, provContextAccounts, nEvents>>
effectVars == <<deps, cur, inits, cap, listeners>>
histVars == <<lateWrite, eventAfterUnmount, lastEvent>>
donateVars == <<amount, error, lastInput, clicks, nSent, lastTx>>
recordVars == <<fullName, profileImgUrl, profileBackground>>
profileVars == <<profPhase, address, effectAddress, recordVars, fetches, nFetch,
                 origin, staleWrite>>
gridVars == <<hasWindow, phase, storeVars, uiVars, provVars, effectVars, histVars>>

-----------------------------------------------------------------------------
(* Bounds and value sets *)

MaxEvents == 2
MaxEffects == 2
MaxClicks == 1
MaxFetches == 3

Null == "null"
Undefined == "undefined"
NoDeps == <<"none">>

AccountLists == {<< >>, <<"0xA">>, <<"0xB">>}
Addresses == {"0xA", "0xB"}
ChainIds == {42, 4201}
EventNames == {"accountsChanged", "chainChanged", "contextAccountsChanged"}

Runs == 1..MaxEffects

NoContext == [defined |-> FALSE]
NoCall == [called |-> FALSE, inside |-> FALSE,
           out |-> [threw |-> FALSE, message |-> "", value |-> NoContext]]

NoInit == [pc |-> "none", mounted |-> FALSE, cleaned |-> FALSE,
           val |-> Undefined, wrote |-> {}, quiet |-> FALSE]

NoEvent == [ev |-> "none", heard |-> FALSE]

-----------------------------------------------------------------------------
(* GridProvider: useState initial values, part_000 lines 36-53 *)

GridInitFor(n) ==
    /\ hasWindow \in BOOLEAN
    /\ phase = "mounted"
    /\ chainId = 0
    /\ accounts = << >>
    /\ contextAccounts = << >>
    /\ walletConnected = FALSE
    /\ selectedAddress = Null
    /\ isSearching = FALSE
    /\ selArg = Null
    /\ deps = NoDeps
    /\ cur = 0
    /\ inits = [g \in 1..n |-> NoInit]
    /\ cap = [g \in 1..n |-> [accounts |-> << >>, contextAccounts |-> << >>]]
    /\ listeners = << >>
    /\ provChainId = 42
    /\ provAccounts \in (IF hasWindow THEN AccountLists ELSE {<< >>})
    /\ provContextAccounts \in (IF hasWindow THEN AccountLists ELSE {<< >>})
    /\ nEvents = 0
    /\ lateWrite = FALSE
    /\ eventAfterUnmount = FALSE
    /\ lastEvent = NoEvent

GridInit == GridInitFor(MaxEffects)

(* A step of the store leaves the other components alone; the outcome of a
   consumer's useGrid() call is held only until the store moves on. *)
OutsideGrid ==
    /\ useGridOut' = NoCall
    /\ UNCHANGED <<donateVars, profileVars>>

(* Faulty variant of CurrentDeps: the array also lists selectedAddress and
   isSearching *)
CurrentDepsWithUI ==
    <<hasWindow, Len(accounts), Len(contextAccounts), selectedAddress, isSearching>>

(* Faulty variant of CurrentDeps: the array without the two lengths *)
CurrentDepsNoLengths == <<hasWindow, 0, 0>>

(* The dependency array of the effect, line 107.  client and provider never
   change after construction, so they are represented by hasWindow. *)
CurrentDeps == <<hasWindow, Len(accounts), Len(contextAccounts)>>

(* Faulty variant of Connected: one non-empty list is enough *)
ConnectedEither(accs, ctxs) == Len(accs) > 0 \/ Len(ctxs) > 0

(* walletConnected as lines 73, 84, 89 compute it *)
Connected(accs, ctxs) == Len(accs) > 0 /\ Len(ctxs) > 0

(* The cleanup the effect returns, lines 100-105 (only when provider exists):
   clears the run's `mounted` flag and removes its three handlers. *)
CleanupInits(g) ==
    [inits EXCEPT ![g].mounted = FALSE, ![g].cleaned = TRUE]

(* Faulty variant of RemoveListeners: the cleanup leaves the handlers registered *)
RemoveListenersKept(g) == listeners

RemoveListeners(g) ==
    SelectSeq(listeners, LAMBDA l : l.run # g)

(* provider.on(...) x3, lines 96-98, in the order of the source *)
RegisterListeners(ls, g) ==
    ls \o << [ev |-> "accountsChanged", run |-> g],
             [ev |-> "chainChanged", run |-> g],
             [ev |-> "contextAccountsChanged", run |-> g] >>

(* Faulty variant of InitStart: init() without the guard of line 60 *)
InitStartUnguarded ==
    [pc |-> "awaitChainId", mounted |-> TRUE, cleaned |-> FALSE,
     val |-> Undefined, wrote |-> {}, quiet |-> TRUE]

(* init() up to its first await, lines 58-62 *)
InitStart ==
    IF ~hasWindow
    THEN [pc |-> "returned", mounted |-> TRUE, cleaned |-> FALSE,
          val |-> Undefined, wrote |-> {}, quiet |-> TRUE]
    ELSE [pc |-> "awaitChainId", mounted |-> TRUE, cleaned |-> FALSE,
          val |-> Undefined, wrote |-> {}, quiet |-> TRUE]

(* One run of the effect body, lines 55-107: React first runs the previous
   run's cleanup (if it returned one), then the body: mounted = true, init(),
   and, with a provider, the registration of three fresh closures. *)
Render ==
    /\ phase = "mounted"
    /\ deps # CurrentDeps
    /\ cur < Cardinality(DOMAIN inits)
    /\ LET g == cur + 1
           cleaned == IF cur > 0 /\ hasWindow THEN CleanupInits(cur) ELSE inits
           kept == IF cur > 0 /\ hasWindow THEN RemoveListeners(cur) ELSE listeners
       IN /\ cur' = g
          /\ inits' = [cleaned EXCEPT ![g] = InitStart]
          /\ cap' = [cap EXCEPT ![g] = [accounts |-> accounts,
                                        contextAccounts |-> contextAccounts]]
          /\ listeners' = IF hasWindow THEN RegisterListeners(kept, g) ELSE kept
    /\ deps' = CurrentDeps
    /\ UNCHANGED <<hasWindow, phase, storeVars, uiVars, provVars, histVars>>
    /\ OutsideGrid

(* Unmount of GridProvider: the live run's cleanup, lines 100-105 *)
Unmount ==
    /\ phase = "mounted"
    /\ cur > 0
    /\ phase' = "unmounted"
    /\ inits' = IF hasWindow THEN CleanupInits(cur) ELSE inits
    /\ listeners' = IF hasWindow THEN RemoveListeners(cur) ELSE listeners
    /\ UNCHANGED <<hasWindow, storeVars, uiVars, provVars, deps, cur, cap, histVars>>
    /\ OutsideGrid


-----------------------------------------------------------------------------
(* init(), lines 58-77.  Each await is split in two steps: the provider
   answers the query (the promise settles with a value), and later the
   continuation of init() runs. *)

(* Faulty variant of StillMounted: init() without its liveness checks *)
StillMountedUnchecked(g) == TRUE

(* `if (!mounted) return;` of lines 63, 67, 71, read by run g's closure *)
StillMounted(g) == inits[g].mounted

(* client.getChainId() resolves, line 62 *)
AnswerChainId(g) ==
    /\ inits[g].pc = "awaitChainId"
    /\ inits' = [inits EXCEPT ![g].pc = "gotChainId", ![g].val = provChainId]
    /\ UNCHANGED <<hasWindow, phase, storeVars, uiVars, provVars, deps, cur,
                   cap, listeners, histVars>>
    /\ OutsideGrid

(* client.getAddresses() resolves, line 66 *)
AnswerAddresses(g) ==
    /\ inits[g].pc = "awaitAddresses"
    /\ inits' = [inits EXCEPT ![g].pc = "gotAddresses", ![g].val = provAccounts]
    /\ UNCHANGED <<hasWindow, phase, storeVars, uiVars, provVars, deps, cur,
                   cap, listeners, histVars>>
    /\ OutsideGrid

(* Faulty variant of CatchError: the rejection escapes init() *)
CatchErrorRethrown(rec) == [rec EXCEPT !.pc = "threw", !.val = Undefined]

(* A query rejects: control goes to the catch block of lines 74-76, which
   logs the error and lets init() return normally. *)
CatchError(rec) ==
    [rec EXCEPT !.pc = IF rec.pc = "awaitChainId" THEN "caughtChainId"
                       ELSE "caughtAddresses",
                !.val = Undefined]

FailQuery(g) ==
    /\ inits[g].pc \in {"awaitChainId", "awaitAddresses"}
    /\ inits' = [inits EXCEPT ![g] = CatchError(inits[g])]
    /\ UNCHANGED <<hasWindow, phase, storeVars, uiVars, provVars, deps, cur,
                   cap, listeners, histVars>>
    /\ OutsideGrid

(* Lines 63-66: after getChainId, the liveness check, setChainId, and the
   next query is issued. *)
ResumeChainId(g) ==
    /\ inits[g].pc = "gotChainId"
    /\ IF StillMounted(g)
       THEN /\ chainId' = inits[g].val
            /\ inits' = [inits EXCEPT ![g].pc = "awaitAddresses",
                                      ![g].val = Undefined,
                                      ![g].wrote = @ \cup {"chainId"}]
            /\ lateWrite' = (lateWrite \/ inits[g].cleaned)
       ELSE /\ inits' = [inits EXCEPT ![g].pc = "returned", ![g].val = Undefined]
            /\ UNCHANGED <<chainId, lateWrite>>
    /\ UNCHANGED <<hasWindow, phase, accounts, contextAccounts, walletConnected,
                   uiVars, provVars, deps, cur, cap, listeners, eventAfterUnmount,
                   lastEvent>>
    /\ OutsideGrid

(* Lines 67-73: after getAddresses, one synchronous stretch: the liveness
   check, setAccounts, the read of provider.contextAccounts,
   setContextAccounts and setWalletConnected. *)
ResumeAddresses(g) ==
    /\ inits[g].pc = "gotAddresses"
    /\ IF StillMounted(g)
       THEN /\ accounts' = inits[g].val
            /\ contextAccounts' = provContextAccounts
            /\ walletConnected' = Connected(inits[g].val, provContextAccounts)
            /\ inits' = [inits EXCEPT ![g].pc = "done",
                                      ![g].val = Undefined,
                                      ![g].wrote = @ \cup {"accounts", "contextAccounts",
                                                          "walletConnected"}]
            /\ lateWrite' = (lateWrite \/ inits[g].cleaned)
       ELSE /\ inits' = [inits EXCEPT ![g].pc = "returned", ![g].val = Undefined]
            /\ UNCHANGED <<accounts, contextAccounts, walletConnected, lateWrite>>
    /\ UNCHANGED <<hasWindow, phase, chainId, uiVars, provVars, deps, cur, cap,
                   listeners, eventAfterUnmount, lastEvent>>
    /\ OutsideGrid

-----------------------------------------------------------------------------
(* Provider events, lines 82-98 *)

Store == [chainId |-> chainId, accounts |-> accounts,
          contextAccounts |-> contextAccounts, walletConnected |-> walletConnected]

(* accountsChanged, lines 82-85: contextAccounts is the closure's capture *)
OnAccountsChanged(s, g, v) ==
    [s EXCEPT !.accounts = v,
              !.walletConnected = Connected(v, cap[g].contextAccounts)]

(* contextAccountsChanged, lines 87-90: accounts is the closure's capture *)
OnContextAccountsChanged(s, g, v) ==
    [s EXCEPT !.contextAccounts = v,
              !.walletConnected = Connected(cap[g].accounts, v)]

(* Faulty variant of OnChainChanged: a chain change also drops the accounts *)
OnChainChangedReset(s, g, v) ==
    [s EXCEPT !.chainId = v, !.accounts = << >>, !.walletConnected = FALSE]

(* chainChanged, lines 92-94 *)
OnChainChanged(s, g, v) == [s EXCEPT !.chainId = v]

Handle(s, l, ev, v) ==
    IF l.ev # ev THEN s
    ELSE IF ev = "accountsChanged" THEN OnAccountsChanged(s, l.run, v)
    ELSE IF ev = "contextAccountsChanged" THEN OnContextAccountsChanged(s, l.run, v)
    ELSE OnChainChanged(s, l.run, v)

(* The emitter calls every registered handler of the event, in order *)
RECURSIVE Dispatch(_, _, _, _)
Dispatch(s, ls, ev, v) ==
    IF ls = << >> THEN s
    ELSE Dispatch(Handle(s, Head(ls), ev, v), Tail(ls), ev, v)

EventValues(ev) == IF ev = "chainChanged" THEN ChainIds ELSE AccountLists

(* Whether some registered handler listens to the event *)
Heard(ev) == \E i \in 1..Len(listeners) : listeners[i].ev = ev

(* The provider changes its own state and emits the event.  `quiet` records,
   per init() call, that no event was emitted since the call began. *)
Emit(ev, v) ==
    /\ hasWindow
    /\ nEvents < MaxEvents
    /\ nEvents' = nEvents + 1
    /\ provChainId' = IF ev = "chainChanged" THEN v ELSE provChainId
    /\ provAccounts' = IF ev = "accountsChanged" THEN v ELSE provAccounts
    /\ provContextAccounts' = IF ev = "contextAccountsChanged" THEN v
                              ELSE provContextAccounts
    /\ LET s == Dispatch(Store, listeners, ev, v)
       IN /\ chainId' = s.chainId
          /\ accounts' = s.accounts
          /\ contextAccounts' = s.contextAccounts
          /\ walletConnected' = s.walletConnected
    /\ eventAfterUnmount' = (eventAfterUnmount \/ phase = "unmounted")
    /\ lastEvent' = [ev |-> ev, heard |-> Heard(ev)]
    /\ inits' = [g \in DOMAIN inits |-> [inits[g] EXCEPT !.quiet = FALSE]]
    /\ UNCHANGED <<hasWindow, phase, uiVars, deps, cur, cap, listeners, lateWrite>>
    /\ OutsideGrid

-----------------------------------------------------------------------------
(* The setters exposed through the context value, lines 52-53, 119-121 *)

SetSelectedAddress(a) ==
    /\ phase = "mounted"
    /\ selectedAddress' = a
    /\ selArg' = a
    /\ UNCHANGED <<hasWindow, phase, storeVars, isSearching, provVars,
                   effectVars, histVars>>
    /\ OutsideGrid

SetIsSearching(b) ==
    /\ phase = "mounted"
    /\ isSearching' = b
    /\ UNCHANGED <<hasWindow, phase, storeVars, selectedAddress, selArg, provVars,
                   effectVars, histVars>>
    /\ OutsideGrid

-----------------------------------------------------------------------------
(* Donate, LuksoProfile.tsx lines 103-139.  An amount is a JavaScript number:
   either NaN (what Number.parseFloat gives for an input that is no number,
   line 143) or a decimal, counted here in units of 1/AmountScale LYX. *)

minAmount == 1
maxAmount == 1000
AmountScale == 2
NaN == [nan |-> TRUE, n |-> 0]
Num(k) == [nan |-> FALSE, n |-> k]
Lyx(k) == Num(k * AmountScale)

(* JavaScript's < and > on numbers: false whenever an operand is NaN *)
Less(a, b) == ~a.nan /\ ~b.nan /\ a.n < b.n
Greater(a, b) == Less(b, a)
NoTx == [sent |-> FALSE]

AmountInputs == {NaN, Num(0), Num(1), Lyx(1500)}

(* The inputs validateAmount is tried on: NaN, the numbers around 0 and
   minAmount, those around maxAmount, and 1500 LYX *)
ValidateInputs ==
    {NaN, Lyx(1500)}
      \cup {Num(k) : k \in -5 .. (50 * AmountScale)}
      \cup {Num(maxAmount * AmountScale + d) : d \in -10 .. 10}

DonateInit ==
    /\ amount = Lyx(minAmount)
    /\ error = ""
    /\ lastInput = Lyx(minAmount)
    /\ clicks = 0
    /\ nSent = 0
    /\ lastTx = NoTx

(* Faulty variant of ValidateError: the bounds themselves are refused *)
ValidateErrorExclusive(value) ==
    IF ~Greater(value, Lyx(minAmount)) /\ ~value.nan
    THEN "Amount must be at least 1 LYX."
    ELSE IF ~Less(value, Lyx(maxAmount)) /\ ~value.nan
    THEN "Amount cannot exceed 1000 LYX."
    ELSE ""

(* The message validateAmount leaves in `error`, lines 118-124; every
   comparison with NaN is false, so NaN leaves no error *)
ValidateError(value) ==
    IF Less(value, Lyx(minAmount)) THEN "Amount must be at least 1 LYX."
    ELSE IF Greater(value, Lyx(maxAmount)) THEN "Amount cannot exceed 1000 LYX."
    ELSE ""

(* `!amount` of line 133: 0 and NaN are falsy *)
Falsy(value) == value.nan \/ value.n = 0

(* accounts[0] / contextAccounts[0]: undefined on an empty array *)
First(list) == IF list = << >> THEN Undefined ELSE list[1]

(* Faulty variant of RecipientAddress: the override is ignored *)
RecipientFirstContext == First(contextAccounts)

(* recipientAddress, line 115; Donate's selectedAddress prop is the store's *)
RecipientAddress ==
    IF selectedAddress # Null THEN selectedAddress ELSE First(contextAccounts)

(* handleOnInput -> validateAmount(value), lines 117-126 and 141-147; the
   effect of lines 128-130 then validates the stored amount once more, which
   leaves the same error and amount. *)
HandleOnInput(value) ==
    /\ phase = "mounted"
    /\ error' = ValidateError(value)
    /\ amount' = value
    /\ lastInput' = value
    /\ UNCHANGED <<gridVars, clicks, nSent, lastTx, useGridOut, profileVars>>

(* Faulty variant of SendGuard: the connection is not checked *)
SendGuardNoWallet == hasWindow /\ ~Falsy(amount)

(* The guard of sendToken, line 133: client is null iff there is no window *)
SendGuard == hasWindow /\ walletConnected /\ ~Falsy(amount)

(* sendToken, lines 132-139.  value is the amount as handed to parseUnits. *)
SendToken ==
    /\ phase = "mounted"
    /\ clicks < MaxClicks
    /\ clicks' = clicks + 1
    /\ IF SendGuard
       THEN /\ nSent' = nSent + 1
            /\ lastTx' = [sent |-> TRUE, account |-> First(accounts),
                          to |-> RecipientAddress, value |-> amount]
       ELSE UNCHANGED <<nSent, lastTx>>
    /\ UNCHANGED <<gridVars, amount, error, lastInput, useGridOut, profileVars>>

-----------------------------------------------------------------------------
(* useGrid, part_000 lines 21-29, and the context value of lines 110-122 *)


(* value={{...}} of GridContext.Provider, lines 111-122 *)
ContextValue ==
    [defined |-> TRUE, provider |-> hasWindow, client |-> hasWindow,
     chainId |-> chainId, accounts |-> accounts,
     contextAccounts |-> contextAccounts, walletConnected |-> walletConnected,
     selectedAddress |-> selectedAddress, isSearching |-> isSearching]

(* useContext(GridContext): the value of the enclosing provider, or the
   default given to createContext (undefined, line 21) *)
UseContext(inside) == IF inside THEN ContextValue ELSE NoContext

(* Faulty variant of UseGrid: a default state instead of the error *)
UseGridDefault(context) == [threw |-> FALSE, message |-> "", value |-> context]

(* useGrid(), lines 23-29 *)
UseGrid(context) ==
    IF ~context.defined
    THEN [threw |-> TRUE, message |-> "useGrid must be used within a GridProvider",
          value |-> NoContext]
    ELSE [threw |-> FALSE, message |-> "", value |-> context]

(* A component calls useGrid() while it renders, inside a mounted
   GridProvider or with none above it *)
CallUseGrid(inside) ==
    /\ inside => phase = "mounted"
    /\ useGridOut' = [called |-> TRUE, inside |-> inside,
                      out |-> UseGrid(UseContext(inside))]
    /\ UNCHANGED <<gridVars, donateVars, profileVars>>

-----------------------------------------------------------------------------
(* LuksoProfile, LuksoProfile.tsx lines 5-53.  A string is a sequence of
   tokens, so that the rewriting of line 38 and 42 acts on its content. *)

IPFS_GATEWAY == "https://api.universalprofile.cloud/ipfs/"
NoAddress == ""
ProfileAddresses == {"0xA", "0xB"}
DefaultImg == <<"https://tools-web-components.pages.dev/images/sample-avatar.jpg">>
Fields == {"fullName", "profileImgUrl", "profileBackground"}

(* What profile.fetchData('LSP3Profile') can resolve to for address a:
     full      name, one profile image and one background image (ipfs urls)
     http      the same with http urls
     nameOnly  a name and empty image lists
     noValue   no LSP3Profile document (value is null)
     nullDoc   value.LSP3Profile is null
     badUrl    a profile image whose url is not a string *)
DocKinds == {"full", "http", "nameOnly", "noValue", "nullDoc", "badUrl"}

Scheme(kind) == IF kind = "http" THEN "https://" ELSE "ipfs://"

(* String.prototype.replace with a string pattern: the first occurrence *)
RECURSIVE Replace(_, _, _)
Replace(str, pat, by) ==
    IF str = << >> THEN << >>
    ELSE IF Head(str) = pat THEN <<by>> \o Tail(str)
    ELSE <<Head(str)>> \o Replace(Tail(str), pat, by)

NoFetch == [pc |-> "none", addr |-> NoAddress, kind |-> "none", wrote |-> {}]

ProfileInit ==
    /\ profPhase = "mounted"
    /\ address \in ProfileAddresses \cup {NoAddress}
    /\ effectAddress = Undefined
    /\ fullName = << >>
    /\ profileImgUrl = DefaultImg
    /\ profileBackground = << >>
    /\ fetches = [i \in 1..MaxFetches |-> NoFetch]
    /\ nFetch = 0
    /\ origin = [f \in Fields |-> "default"]
    /\ staleWrite = FALSE

(* fetchProfileImage() up to its await, lines 19-25 *)
FetchStart(a) ==
    IF a = NoAddress
    THEN [pc |-> "returned", addr |-> a, kind |-> "none", wrote |-> {}]
    ELSE [pc |-> "await", addr |-> a, kind |-> "none", wrote |-> {}]

(* The effect of lines 18-53 runs after the render in which address changed *)
ProfileEffect ==
    /\ profPhase = "mounted"
    /\ effectAddress # address
    /\ nFetch < MaxFetches
    /\ nFetch' = nFetch + 1
    /\ effectAddress' = address
    /\ fetches' = [fetches EXCEPT ![nFetch + 1] = FetchStart(address)]
    /\ UNCHANGED <<profPhase, address, recordVars, origin, staleWrite>>
    /\ UNCHANGED <<gridVars, donateVars, useGridOut>>

(* The parent renders LuksoProfile with another address *)
ChangeAddress(a) ==
    /\ profPhase = "mounted"
    /\ a # address
    /\ address' = a
    /\ UNCHANGED <<profPhase, effectAddress, recordVars, fetches, nFetch,
                   origin, staleWrite>>
    /\ UNCHANGED <<gridVars, donateVars, useGridOut>>

ProfileUnmount ==
    /\ profPhase = "mounted"
    /\ profPhase' = "unmounted"
    /\ UNCHANGED <<address, effectAddress, recordVars, fetches, nFetch,
                   origin, staleWrite>>
    /\ UNCHANGED <<gridVars, donateVars, useGridOut>>

(* profile.fetchData resolves, line 25 *)
AnswerFetch(i, kind) ==
    /\ fetches[i].pc = "await"
    /\ fetches' = [fetches EXCEPT ![i].pc = "got", ![i].kind = kind]
    /\ UNCHANGED <<profPhase, address, effectAddress, recordVars, nFetch,
                   origin, staleWrite>>
    /\ UNCHANGED <<gridVars, donateVars, useGridOut>>

(* profile.fetchData rejects: the catch block of lines 47-49 logs it *)
FailFetch(i) ==
    /\ fetches[i].pc = "await"
    /\ fetches' = [fetches EXCEPT ![i].pc = "caught"]
    /\ UNCHANGED <<profPhase, address, effectAddress, recordVars, nFetch,
                   origin, staleWrite>>
    /\ UNCHANGED <<gridVars, donateVars, useGridOut>>

(* Which setters the continuation of lines 26-45 calls before it ends or
   throws: nullDoc throws at line 31, badUrl at line 38 (after setFullName) *)
Sets(kind) ==
    IF kind \in {"full", "http"} THEN Fields
    ELSE IF kind \in {"nameOnly", "badUrl"} THEN {"fullName"}
    ELSE {}

Throws(kind) == kind \in {"nullDoc", "badUrl"}

(* Lines 26-45, one synchronous stretch.  React drops a state update of a
   component that is no longer mounted.  `wrote` records, per fetch, the
   fields it set. *)
ResumeFetch(i) ==
    /\ fetches[i].pc = "got"
    /\ LET f == fetches[i]
           w == IF profPhase = "mounted" THEN Sets(f.kind) ELSE {}
       IN /\ fetches' = [fetches EXCEPT ![i].pc = IF Throws(f.kind) THEN "caught"
                                                  ELSE "done",
                                         ![i].wrote = w]
          /\ fullName' = IF "fullName" \in w THEN <<"name", f.addr>> ELSE fullName
          /\ profileImgUrl' =
                IF "profileImgUrl" \in w
                THEN Replace(<<Scheme(f.kind), "img", f.addr>>, "ipfs://", IPFS_GATEWAY)
                ELSE profileImgUrl
          /\ profileBackground' =
                IF "profileBackground" \in w
                THEN Replace(<<Scheme(f.kind), "bg", f.addr>>, "ipfs://", IPFS_GATEWAY)
                ELSE profileBackground
          /\ origin' = [x \in Fields |-> IF x \in w THEN f.addr ELSE origin[x]]
          /\ staleWrite' = (staleWrite \/ (w # {} /\ f.addr # address))
    /\ UNCHANGED <<profPhase, address, effectAddress, nFetch>>
    /\ UNCHANGED <<gridVars, donateVars, useGridOut>>

-----------------------------------------------------------------------------
vars == <<gridVars, donateVars, useGridOut, profileVars>>

(* The connection state store alone *)
Init ==
    /\ GridInit
    /\ DonateInit
    /\ useGridOut = NoCall
    /\ ProfileInit
    /\ address = NoAddress

Next ==
    \/ Render
    \/ Unmount
    \/ \E g \in Runs : AnswerChainId(g)
    \/ \E g \in Runs : AnswerAddresses(g)
    \/ \E g \in Runs : FailQuery(g)
    \/ \E g \in Runs : ResumeChainId(g)
    \/ \E g \in Runs : ResumeAddresses(g)
    \/ \E ev \in EventNames : \E v \in EventValues(ev) : Emit(ev, v)

Spec == Init /\ [][Next]_vars

(* The store of a page that stays open, with a provider whose queries all
   resolve: no unmount and no rejected query.  A pending effect is eventually
   run by React, a pending query is eventually answered and a settled promise
   eventually resumes init().  The events stop after MaxEvents of them, and
   the mount has room for the effect runs they can cause. *)
LiveEffects == MaxEvents + 2
LiveRuns == 1..LiveEffects

InitLive ==
    /\ GridInitFor(LiveEffects)
    /\ hasWindow
    /\ DonateInit
    /\ useGridOut = NoCall
    /\ ProfileInit
    /\ address = NoAddress

NextLive ==
    \/ Render
    \/ \E g \in LiveRuns : AnswerChainId(g)
    \/ \E g \in LiveRuns : AnswerAddresses(g)
    \/ \E g \in LiveRuns : ResumeChainId(g)
    \/ \E g \in LiveRuns : ResumeAddresses(g)
    \/ \E ev \in EventNames : \E v \in EventValues(ev) : Emit(ev, v)

FairLive ==
    /\ WF_vars(Render)
    /\ \A g \in LiveRuns :
          /\ WF_vars(AnswerChainId(g))
          /\ WF_vars(AnswerAddresses(g))
          /\ WF_vars(ResumeChainId(g))
          /\ WF_vars(ResumeAddresses(g))

SpecLive == InitLive /\ [][NextLive]_vars /\ FairLive

(* The store and the setters its context value exposes *)
NextUI ==
    \/ Next
    \/ \E a \in Addresses \cup {Null} : SetSelectedAddress(a)
    \/ \E b \in BOOLEAN : SetIsSearching(b)

SpecUI == Init /\ [][NextUI]_vars

(* A page whose wallet is already connected when the widget loads: the
   provider starts with one local and one counterpart account, and its events
   change them from there. *)
InitConnected ==
    /\ Init
    /\ provAccounts = <<"0xA">>
    /\ provContextAccounts = <<"0xB">>

(* The store with the Donate component *)
NextDonate ==
    \/ Next
    \/ \E a \in Addresses \cup {Null} : SetSelectedAddress(a)
    \/ \E value \in AmountInputs : HandleOnInput(value)
    \/ SendToken

SpecDonate == InitConnected /\ [][NextDonate]_vars

(* The store with consumers that call useGrid() *)
NextUseGrid ==
    \/ Next
    \/ \E inside \in BOOLEAN : CallUseGrid(inside)

SpecUseGrid == InitConnected /\ [][NextUseGrid]_vars

(* The amount input of Donate alone: validateAmount on each input *)
InitAmount ==
    /\ InitConnected
    /\ hasWindow

NextAmount == \E value \in ValidateInputs : HandleOnInput(value)

SpecAmount == InitAmount /\ [][NextAmount]_vars

(* The LuksoProfile component alone, for any address it is first given *)
InitProfile ==
    /\ GridInit
    /\ hasWindow
    /\ provAccounts = << >>
    /\ provContextAccounts = << >>
    /\ DonateInit
    /\ useGridOut = NoCall
    /\ ProfileInit

NextProfile ==
    \/ ProfileEffect
    \/ \E a \in ProfileAddresses \cup {NoAddress} : ChangeAddress(a)
    \/ ProfileUnmount
    \/ \E i \in 1..MaxFetches : \E kind \in DocKinds : AnswerFetch(i, kind)
    \/ \E i \in 1..MaxFetches : FailFetch(i)
    \/ \E i \in 1..MaxFetches : ResumeFetch(i)

SpecProfile == InitProfile /\ [][NextProfile]_vars

-----------------------------------------------------------------------------
(* Properties *)

(* C1: in every reachable state walletConnected equals (accounts non-empty
   and contextAccounts non-empty) of the stored state, whatever events were
   delivered and whenever the effect re-ran. *)
C1_ConnectedMatchesAccounts ==
    walletConnected = (accounts # << >> /\ contextAccounts # << >>)

(* C2: an init() whose effect run was cleaned up (unmount or re-run) while a
   query was in flight performs no write of chainId, accounts,
   contextAccounts or walletConnected afterwards. *)
C2_NoWriteAfterCleanup == lateWrite = FALSE

C2_Witness ==
    /\ phase = "unmounted"
    /\ inits[cur].pc = "returned"
    /\ inits[cur].wrote = {"chainId"}
    /\ provAccounts # accounts

(* C3: after the unmount no handler of the store is registered, and a step in
   which the provider emits an event leaves chainId, accounts,
   contextAccounts and walletConnected as they were. *)
C3_NoHandlerAfterUnmount ==
    /\ [](phase = "unmounted" => listeners = << >>)
    /\ [][phase = "unmounted" /\ nEvents' # nEvents => UNCHANGED storeVars]_vars

C3_Witness ==
    /\ eventAfterUnmount
    /\ walletConnected
    /\ provAccounts # accounts
    /\ provContextAccounts # contextAccounts

Positive(value) == ~value.nan /\ value.n > 0

(* C4: sendTransaction is only called by a sendToken invocation that reads
   walletConnected = true with a client; an invocation without client or
   with walletConnected = false calls it zero times, and one whose
   preconditions hold with a positive amount calls it exactly once. *)
C4_SendTokenSubmissions ==
    [][ /\ nSent' # nSent =>
              /\ clicks' = clicks + 1
              /\ nSent' = nSent + 1
              /\ hasWindow /\ walletConnected
        /\ clicks' = clicks + 1 =>
              IF ~hasWindow \/ ~walletConnected THEN nSent' = nSent
              ELSE Positive(amount) => nSent' = nSent + 1 ]_vars

C4_Witness ==
    /\ nSent = 1
    /\ lastTx.sent
    /\ Positive(lastTx.value)

(* C5: every amount handed to sendTransaction lies within
   [minAmount, maxAmount], that is, validateAmount reports no error for it. *)
C5_SubmittedAmountInRange ==
    lastTx.sent =>
        /\ ~Less(lastTx.value, Lyx(minAmount))
        /\ ~Greater(lastTx.value, Lyx(maxAmount))
        /\ ValidateError(lastTx.value) = ""

(* C6: without a provider the store stays in chainId = 0, no accounts, no
   contextAccounts, walletConnected = false; init() issues no query (it has
   returned), no handler is registered and nothing was thrown or caught. *)
C6_NoProviderStaysUninitialized ==
    ~hasWindow =>
        /\ chainId = 0
        /\ accounts = << >>
        /\ contextAccounts = << >>
        /\ walletConnected = FALSE
        /\ listeners = << >>
        /\ \A g \in Runs : inits[g].pc \in {"none", "returned"}
        /\ \A g \in Runs : inits[g].wrote = {}

C6_Witness ==
    /\ ~hasWindow
    /\ cur = 1
    /\ inits[1].pc = "returned"
    /\ deps = CurrentDeps

Caught == {"caughtChainId", "caughtAddresses"}

(* C7 as stated: an init() that ended in its catch block has written none of
   chainId, accounts, contextAccounts, walletConnected, and no error escaped. *)
C7_FailedInitWroteNothing ==
    \A g \in Runs :
        /\ inits[g].pc # "threw"
        /\ inits[g].pc \in Caught => inits[g].wrote = {}

(* C7 as amended: no error of getChainId or getAddresses escapes init(); an
   init() whose getChainId failed has written nothing; one whose getAddresses
   failed has written chainId (from the answer of getChainId) and nothing
   else. *)
C7_FailedInitWritesAtMostChainId ==
    \A g \in Runs :
        /\ inits[g].pc # "threw"
        /\ inits[g].pc = "caughtChainId" => inits[g].wrote = {}
        /\ inits[g].pc = "caughtAddresses" => inits[g].wrote = {"chainId"}

C7_Witness ==
    \E g \in Runs :
        /\ inits[g].pc = "caughtAddresses"
        /\ inits[g].wrote = {"chainId"}
        /\ chainId # 0
        /\ accounts = << >> /\ provAccounts # << >>

(* C8: a useGrid() call with no GridProvider above the caller throws the
   configuration error and returns no state; a call inside a GridProvider
   does not throw and returns the provider's current context value. *)
C8_UseGridScope ==
    useGridOut.called =>
        IF useGridOut.inside
        THEN /\ ~useGridOut.out.threw
             /\ useGridOut.out.value.defined
             /\ useGridOut.out.value = ContextValue
        ELSE /\ useGridOut.out.threw
             /\ useGridOut.out.message = "useGrid must be used within a GridProvider"
             /\ ~useGridOut.out.value.defined

C8_Witness ==
    /\ useGridOut.called
    /\ ~useGridOut.inside
    /\ useGridOut.out.threw
    /\ phase = "mounted"
    /\ walletConnected

(* C9: selectedAddress is the argument of the last setSelectedAddress call
   (none initially), and the recipient of a transfer is selectedAddress when
   it is set, else contextAccounts[0]. *)
C9_SelectedAddressAndRecipient ==
    /\ [](selectedAddress = selArg)
    /\ [][nSent' = nSent + 1 =>
             lastTx'.to = IF selectedAddress # Null THEN selectedAddress
                          ELSE IF contextAccounts = << >> THEN Undefined
                          ELSE contextAccounts[1]]_vars

C9_Witness ==
    /\ lastTx.sent
    /\ selectedAddress # Null
    /\ lastTx.to = selectedAddress
    /\ contextAccounts # << >>
    /\ contextAccounts[1] # selectedAddress

(* The fetch of the effect run for the current address has ended *)
CurrentFetchEnded ==
    /\ effectAddress = address
    /\ nFetch > 0
    /\ fetches[nFetch].pc \in {"done", "caught", "returned"}

(* C10: no fetch writes into the displayed record while the address is
   another one than the fetch's, and once the fetch for the current address
   has ended no displayed field comes from another address. *)
C10_SupersededFetchDiscarded ==
    /\ staleWrite = FALSE
    /\ CurrentFetchEnded =>
          \A f \in Fields : origin[f] \in {"default", address}

(* C11: validateAmount(v) stores v as the amount, and leaves the error
   "Amount must be at least 1 LYX." when v < 1, "Amount cannot exceed 1000
   LYX." when v > 1000, and no error when 1 <= v <= 1000. *)
C11_ValidateAmountClasses ==
    /\ amount = lastInput
    /\ ~lastInput.nan =>
          /\ lastInput.n < minAmount * AmountScale
                => error = "Amount must be at least 1 LYX."
          /\ lastInput.n > maxAmount * AmountScale
                => error = "Amount cannot exceed 1000 LYX."
          /\ (/\ lastInput.n >= minAmount * AmountScale
              /\ lastInput.n <= maxAmount * AmountScale) => error = ""

C11_Witness ==
    /\ lastInput = Lyx(maxAmount)
    /\ amount = Lyx(maxAmount)
    /\ error = ""

(* C12: init() runs once per mount: between mount and unmount at most one
   call of init() has issued its chain-id and local-accounts queries. *)
C12_InitOncePerMount ==
    hasWindow => Cardinality({g \in Runs : inits[g].pc # "none"}) <= 1

(* C13: every submission of sendToken has a defined sender accounts[0] and
   a defined recipient (selectedAddress, or else contextAccounts[0]): nothing
   is submitted while accounts is empty, or while contextAccounts is empty
   and no address is selected. *)
C13_SubmissionHasSenderAndRecipient ==
    lastTx.sent => lastTx.account # Undefined /\ lastTx.to # Undefined

(* C14: init() queries the chain id first and the local accounts second,
   then reads provider.contextAccounts synchronously.  It writes accounts,
   contextAccounts and walletConnected in one step, and when it completes
   with no provider event since it began, chainId, accounts and
   contextAccounts are the values returned and walletConnected is
   (accounts non-empty and contextAccounts non-empty). *)
C14_InitOrderAndCompletion ==
    \A g \in Runs :
        /\ inits[g].pc \in {"awaitAddresses", "gotAddresses", "caughtAddresses",
                            "done"} => "chainId" \in inits[g].wrote
        /\ "accounts" \in inits[g].wrote => inits[g].pc = "done"
        /\ ("accounts" \in inits[g].wrote) = ("contextAccounts" \in inits[g].wrote)
        /\ ("accounts" \in inits[g].wrote) = ("walletConnected" \in inits[g].wrote)
        /\ inits[g].pc = "done" /\ inits[g].quiet =>
              /\ chainId = provChainId
              /\ accounts = provAccounts
              /\ contextAccounts = provContextAccounts
              /\ walletConnected = (accounts # << >> /\ contextAccounts # << >>)

C14_Witness ==
    \E g \in Runs :
        /\ inits[g].pc = "done"
        /\ inits[g].quiet
        /\ phase = "mounted"
        /\ accounts # << >>
        /\ walletConnected

(* C15: a chainChanged(newChainId) event that the store hears replaces
   chainId with newChainId; it leaves accounts, contextAccounts,
   walletConnected, selectedAddress and isSearching unchanged, and it neither
   re-runs the effect (no init(), no handler registration) nor changes the
   effect's dependencies. *)
C15_ChainChangedFrame ==
    [][nEvents' # nEvents /\ lastEvent'.ev = "chainChanged" =>
          /\ chainId' = IF lastEvent'.heard THEN provChainId' ELSE chainId
          /\ UNCHANGED <<accounts, contextAccounts, walletConnected,
                         selectedAddress, isSearching>>
          /\ UNCHANGED <<deps, cur, cap, listeners>>
          /\ \A g \in Runs : /\ inits'[g].pc = inits[g].pc
                             /\ inits'[g].mounted = inits[g].mounted
          /\ CurrentDeps' = CurrentDeps]_vars

C15_Witness ==
    /\ lastEvent = [ev |-> "chainChanged", heard |-> TRUE]
    /\ chainId = 4201
    /\ provChainId = 4201
    /\ walletConnected
    /\ selectedAddress # Null

InFlight(g) ==
    inits[g].pc \in {"awaitChainId", "gotChainId", "awaitAddresses", "gotAddresses"}

(* C16: when every query resolves and the events stop, the store eventually
   reaches, and stays in, a state where walletConnected = (accounts non-empty
   and contextAccounts non-empty), no effect re-run is pending and no init()
   is in flight. *)
C16_EventuallyStable ==
    <>[](/\ walletConnected = (accounts # << >> /\ contextAccounts # << >>)
         /\ deps = <<hasWindow, Len(accounts), Len(contextAccounts)>>
         /\ \A g \in LiveRuns : ~InFlight(g))

C16_Witness ==
    /\ nEvents = MaxEvents
    /\ cur = LiveEffects
    /\ deps = <<hasWindow, Len(accounts), Len(contextAccounts)>>
    /\ \A g \in LiveRuns : ~InFlight(g)
    /\ walletConnected

(* C17: the result of an in-flight init() never overwrites a newer event
   value: when the last event was an accountsChanged that the store heard,
   every query has resolved and been consumed and no effect re-run is
   pending, accounts is the value of that event. *)
C17_InitNeverOverwritesEvent ==
    (/\ phase = "mounted"
     /\ lastEvent = [ev |-> "accountsChanged", heard |-> TRUE]
     /\ \A g \in Runs : ~InFlight(g)
     /\ deps = CurrentDeps)
        => accounts = provAccounts

HandlersOf(ev) == {i \in 1..Len(listeners) : listeners[i].ev = ev}

(* C18: at every moment at most one handler per event class is registered;
   while the store is mounted with a provider and its effect has run, exactly
   one per class is, the one of the live effect run; after the unmount none
   is.  Every handler of an earlier run was removed by that run's cleanup. *)
C18_OneHandlerPerEvent ==
    /\ \A ev \in EventNames : Cardinality(HandlersOf(ev)) <= 1
    /\ \A i \in 1..Len(listeners) :
          /\ listeners[i].run = cur
          /\ ~inits[cur].cleaned
    /\ (hasWindow /\ phase = "mounted" /\ cur > 0) =>
          \A ev \in EventNames : Cardinality(HandlersOf(ev)) = 1
    /\ (phase = "unmounted" \/ ~hasWindow) => listeners = << >>

C18_Witness ==
    /\ phase = "mounted"
    /\ cur = MaxEffects
    /\ \A ev \in EventNames : Cardinality(HandlersOf(ev)) = 1
    /\ inits[1].cleaned

(* C19: selectedAddress and isSearching are independent of the connection
   lifecycle: a step of init(), of an event handler, of the effect or of the
   unmount leaves both unchanged, and a step that changes either of them
   leaves chainId, accounts, contextAccounts and walletConnected unchanged,
   starts no query, registers or removes no handler and does not change the
   effect's dependencies. *)
C19_UiIndependentOfConnection ==
    [][/\ (selectedAddress' # selectedAddress \/ isSearching' # isSearching) =>
             /\ UNCHANGED <<storeVars, provVars, phase, effectVars>>
             /\ CurrentDeps' = CurrentDeps
       /\ (\/ storeVars' # storeVars
           \/ effectVars' # effectVars
           \/ provVars' # provVars
           \/ phase' # phase) => UNCHANGED <<selectedAddress, isSearching>>]_vars

C19_Witness ==
    /\ selectedAddress = "0xB"
    /\ isSearching
    /\ phase = "unmounted"
    /\ walletConnected
    /\ lastEvent.heard
    /\ \E g \in Runs : inits[g].pc = "done"

(* C20: a profile fetch that fails (the request rejects, or the metadata
   makes the continuation throw) is caught and has set no field of the
   displayed record; a fetch for an empty address issues no request and sets
   no field. *)
C20_FailedFetchWroteNothing ==
    \A i \in 1..MaxFetches :
        /\ fetches[i].pc \in {"caught", "returned"} => fetches[i].wrote = {}
        /\ fetches[i].addr = NoAddress => fetches[i].pc \in {"none", "returned"}

=============================================================================
